---- MODULE Spec2Model ----
(***************************************************************************)
(* Model of the pg-mem execution core: the structural DROP executors       *)
(* (DropIndex / DropSequence) over the nested transaction scopes, the      *)
(* Query.executeSelect / Query.executeInsert handlers, the ORDER BY        *)
(* comparator chain and the jsonb structural order.                        *)
(***************************************************************************)
EXTENDS Integers, Sequences, FiniteSets, TLC

VARIABLES db, cur, indexes, sequences, executor, direct, hist,
          tables, qres,
          ordRows, ordBy, ordOut,
          jl, jr, jop, jres

txvars == <<db, cur, indexes, sequences, executor, direct, hist>>
qvars == <<tables, qres>>
ovars == <<ordRows, ordBy, ordOut>>
jvars == <<jl, jr, jop, jres>>
vars == <<txvars, qvars, ovars, jvars>>

\* ------------------------------------------------------------------------
\* Bounds
\* ------------------------------------------------------------------------
MaxTx == 3

\* ------------------------------------------------------------------------
\* Transactions (nested, forkable scopes)
\* ------------------------------------------------------------------------
Root == 0
NoTx == 0 - 1
TxIds == 0..MaxTx
Keys == {"r1", "r2"}
IndexNames == {"i1"}
SeqNames == {"s1"}
Changes == {"ins", "del"}

EmptyPending == [k \in Keys |-> "none"]

HasPending(d, t) == \E k \in Keys : d.pending[t][k] # "none"

OpenTx(d) == {t \in TxIds : d.status[t] = "open"}

\* a transaction of the chain still holds changes that are not in the root
Dirty(d) == \E t \in OpenTx(d) : t # Root /\ HasPending(d, t)

ApplyChange(rows, k, c) ==
    IF c = "ins" THEN rows \cup {k}
    ELSE IF c = "del" THEN rows \ {k}
    ELSE rows

ApplyPending(rows, p) ==
    (rows \cup {k \in Keys : p[k] = "ins"}) \ {k \in Keys : p[k] = "del"}

\* what a read through t sees: its own pending changes over its parent's view
RECURSIVE Visible(_, _)
Visible(d, t) ==
    IF t = Root THEN d.store
    ELSE ApplyPending(Visible(d, d.parent[t]), d.pending[t])

\* the chain of t: t and all its ancestors up to the root
RECURSIVE Chain(_, _)
Chain(d, t) == IF t = Root THEN {Root} ELSE {t} \cup Chain(d, d.parent[t])

Merge(pp, cp) == [k \in Keys |-> IF cp[k] # "none" THEN cp[k] ELSE pp[k]]

write(d, t, k, c) ==
    IF t = Root THEN [d EXCEPT !.store = ApplyChange(@, k, c)]
    ELSE [d EXCEPT !.pending[t][k] = c]

fork(d, t) ==
    [d   |-> [d EXCEPT !.parent[d.nextId] = t,
                       !.status[d.nextId] = "open",
                       !.pending[d.nextId] = EmptyPending,
                       !.nextId = @ + 1],
     ret |-> d.nextId]

commitLosingDeletes(d, t) ==
    IF t = Root THEN d
    ELSE LET p == d.parent[t]
             ins == [k \in Keys |-> IF d.pending[t][k] = "ins" THEN "ins" ELSE "none"]
             folded == IF p = Root
                       THEN [d EXCEPT !.store = ApplyPending(@, ins)]
                       ELSE [d EXCEPT !.pending[p] = Merge(@, ins)]
         IN [folded EXCEPT !.status[t] = "committed", !.pending[t] = EmptyPending,
                           !.parent[t] = NoTx]

commit(d, t) ==
    IF t = Root THEN d
    ELSE LET p == d.parent[t]
             folded == IF p = Root
                       THEN [d EXCEPT !.store = ApplyPending(@, d.pending[t])]
                       ELSE [d EXCEPT !.pending[p] = Merge(@, d.pending[t])]
         IN [folded EXCEPT !.status[t] = "committed", !.pending[t] = EmptyPending,
                           !.parent[t] = NoTx]

rollback(d, t) ==
    [d EXCEPT !.status[t] = "rolledback", !.pending[t] = EmptyPending,
              !.parent[t] = NoTx]

RECURSIVE fullCommit(_, _)
fullCommit(d, t) ==
    IF t = Root THEN [d |-> d, ret |-> Root]
    ELSE fullCommit(commit(d, t), d.parent[t])

\* ------------------------------------------------------------------------
\* Schema registry and the two structural DROP executors
\* ------------------------------------------------------------------------
NullObj == "null"
NotFound == "ObjectNotFound"
NoExecutor == [kind |-> "none", obj |-> NullObj]

getObject(existing, name, nullIfNotFound) ==
    IF name \in existing THEN name
    ELSE IF nullIfNotFound THEN NullObj
    ELSE NotFound

\* planning: the executor, or the error raised by the constructor
DropIndexConstructorTolerant(idxs, statement) ==
    LET idx == getObject(idxs, statement.name, TRUE)
    IN [error |-> "none", executor |-> [kind |-> "DropIndex", obj |-> idx]]

DropIndexConstructor(idxs, statement) ==
    LET idx == getObject(idxs, statement.name, statement.ifExists)
    IN IF idx = NotFound
       THEN [error |-> NotFound, executor |-> NoExecutor]
       ELSE [error |-> "none", executor |-> [kind |-> "DropIndex", obj |-> idx]]

DropSequenceConstructor(seqs, statement) ==
    LET seq == getObject(seqs, statement.name, statement.ifExists)
    IN IF seq = NotFound
       THEN [error |-> NotFound, executor |-> NoExecutor]
       ELSE [error |-> "none", executor |-> [kind |-> "DropSequence", obj |-> seq]]

\* the local state of one execute() call: h.t is the handler's variable t
StepFullCommit(h) ==
    LET fc == fullCommit(h.d, h.t)
    IN [h EXCEPT !.d = fc.d, !.t = fc.ret,
                 !.calls = Append(@, [call |-> "fullCommit", on |-> h.t, ret |-> fc.ret,
                                     dirty |-> Dirty(h.d)])]

\* idx?.onTable.dropIndex(t, name) / seq?.drop(t)
StepDrop(h) ==
    IF h.obj = NullObj THEN h
    ELSE [h EXCEPT !.objects = @ \ {h.obj},
                   !.calls = Append(@, [call |-> "drop", on |-> h.t, ret |-> h.t,
                                        dirty |-> Dirty(h.d)])]

StepFork(h) ==
    LET fk == fork(h.d, h.t)
    IN [h EXCEPT !.d = fk.d, !.t = fk.ret,
                 !.calls = Append(@, [call |-> "fork", on |-> h.t, ret |-> fk.ret,
                                     dirty |-> Dirty(h.d)])]

noData(h, tag) == [h EXCEPT !.tag = tag]

Handler(d, objects, t, obj) ==
    [d |-> d, objects |-> objects, t |-> t, obj |-> obj, calls |-> <<>>, tag |-> "none"]

DropIndexExecuteDropFirst(d, idxs, t, idx) ==
    noData(StepFork(StepFullCommit(StepDrop(Handler(d, idxs, t, idx)))), "DROP")

DropIndexExecuteCommitOnce(d, idxs, t, idx) ==
    LET h == Handler(d, idxs, t, idx)
        p == IF h.t = Root THEN Root ELSE h.d.parent[h.t]
        c == [h EXCEPT !.d = commit(h.d, h.t),
                       !.t = p,
                       !.calls = Append(@, [call |-> "fullCommit", on |-> h.t, ret |-> p,
                                            dirty |-> Dirty(h.d)])]
    IN noData(StepFork(StepDrop(c)), "DROP")

DropIndexExecute(d, idxs, t, idx) ==
    noData(StepFork(StepDrop(StepFullCommit(Handler(d, idxs, t, idx)))), "DROP")

DropSequenceExecute(d, seqs, t, seq) ==
    noData(StepFork(StepDrop(StepFullCommit(Handler(d, seqs, t, seq)))), "DROP")

\* ------------------------------------------------------------------------
\* State machine of the transaction chain and the DROP statements
\* ------------------------------------------------------------------------
InitDb ==
    [parent  |-> [t \in TxIds |-> NoTx],
     status  |-> [t \in TxIds |-> IF t = Root THEN "open" ELSE "unused"],
     pending |-> [t \in TxIds |-> EmptyPending],
     store   |-> {},
     nextId  |-> 1]

NoStatement == [kind |-> "none", name |-> NullObj, ifExists |-> FALSE]

NoSnapshot == [db |-> InitDb, cur |-> Root, indexes |-> {}, sequences |-> {}]

Snapshot == [db |-> db, cur |-> cur, indexes |-> indexes, sequences |-> sequences]

\* record of the last operation: what was asked, what it did, what it started from
Hist(op, tx, stmt, error, calls, tag, view, pre) ==
    [op |-> op, tx |-> tx, stmt |-> stmt, error |-> error, calls |-> calls,
     tag |-> tag, view |-> view, pre |-> pre]

InitTx ==
    /\ db = InitDb
    /\ cur = Root
    /\ indexes \in SUBSET IndexNames
    /\ sequences \in SUBSET SeqNames
    /\ executor = NoExecutor
    /\ direct = [t \in TxIds |-> {}]
    /\ hist = Hist("init", Root, NoStatement, "none", <<>>, "none", {}, NoSnapshot)

\* direct[t] replays on a plain row set, starting from the parent's view at the
\* fork, every change made through t
Fork ==
    /\ executor = NoExecutor
    /\ db.nextId <= MaxTx
    /\ LET fk == fork(db, cur)
       IN /\ db' = fk.d
          /\ cur' = fk.ret
          /\ direct' = [direct EXCEPT ![fk.ret] = Visible(db, cur)]
    /\ hist' = Hist("change", Root, NoStatement, "none", <<>>, "none", {}, NoSnapshot)
    /\ UNCHANGED <<indexes, sequences, executor>>
    /\ UNCHANGED <<qvars, ovars, jvars>>

Write ==
    /\ executor = NoExecutor
    /\ \E k \in Keys, c \in Changes :
          /\ db' = write(db, cur, k, c)
          /\ direct' = [direct EXCEPT ![cur] = ApplyChange(@, k, c)]
    /\ hist' = Hist("change", Root, NoStatement, "none", <<>>, "none", {}, NoSnapshot)
    /\ UNCHANGED <<cur, indexes, sequences, executor>>
    /\ UNCHANGED <<qvars, ovars, jvars>>

Commit ==
    /\ executor = NoExecutor
    /\ cur # Root
    /\ db' = commit(db, cur)
    /\ cur' = db.parent[cur]
    /\ direct' = [direct EXCEPT ![db.parent[cur]] = direct[cur], ![cur] = {}]
    /\ hist' = Hist("commit", cur, NoStatement, "none", <<>>, "none",
                    direct[cur], NoSnapshot)
    /\ UNCHANGED <<indexes, sequences, executor>>
    /\ UNCHANGED <<qvars, ovars, jvars>>

Rollback ==
    /\ executor = NoExecutor
    /\ cur # Root
    /\ db' = rollback(db, cur)
    /\ cur' = db.parent[cur]
    /\ hist' = Hist("rollback", cur, NoStatement, "none", <<>>, "none",
                    Visible(db, db.parent[cur]), NoSnapshot)
    /\ direct' = [direct EXCEPT ![cur] = {}]
    /\ UNCHANGED <<indexes, sequences, executor>>
    /\ UNCHANGED <<qvars, ovars, jvars>>

PlanDropIndex ==
    /\ executor = NoExecutor
    /\ \E name \in IndexNames, ifExists \in BOOLEAN :
          LET statement == [kind |-> "DropIndex", name |-> name, ifExists |-> ifExists]
              planned == DropIndexConstructor(indexes, statement)
          IN /\ executor' = planned.executor
             /\ hist' = Hist("plan", cur, statement, planned.error, <<>>, "none",
                             {}, Snapshot)
    /\ UNCHANGED <<db, cur, indexes, sequences, direct>>
    /\ UNCHANGED <<qvars, ovars, jvars>>

PlanDropSequence ==
    /\ executor = NoExecutor
    /\ \E name \in SeqNames, ifExists \in BOOLEAN :
          LET statement == [kind |-> "DropSequence", name |-> name, ifExists |-> ifExists]
              planned == DropSequenceConstructor(sequences, statement)
          IN /\ executor' = planned.executor
             /\ hist' = Hist("plan", cur, statement, planned.error, <<>>, "none",
                             {}, Snapshot)
    /\ UNCHANGED <<db, cur, indexes, sequences, direct>>
    /\ UNCHANGED <<qvars, ovars, jvars>>

ExecuteDropIndex ==
    /\ executor.kind = "DropIndex"
    /\ db.nextId <= MaxTx
    /\ LET r == DropIndexExecute(db, indexes, cur, executor.obj)
       IN /\ db' = r.d
          /\ cur' = r.t
          /\ indexes' = r.objects
          /\ direct' = [t \in TxIds |-> IF t \in {Root, r.t} THEN r.d.store ELSE {}]
          /\ hist' = Hist("execute", cur, hist.stmt, "none", r.calls, r.tag,
                          Visible(db, cur), Snapshot)
    /\ executor' = NoExecutor
    /\ UNCHANGED sequences
    /\ UNCHANGED <<qvars, ovars, jvars>>

ExecuteDropSequence ==
    /\ executor.kind = "DropSequence"
    /\ db.nextId <= MaxTx
    /\ LET r == DropSequenceExecute(db, sequences, cur, executor.obj)
       IN /\ db' = r.d
          /\ cur' = r.t
          /\ sequences' = r.objects
          /\ direct' = [t \in TxIds |-> IF t \in {Root, r.t} THEN r.d.store ELSE {}]
          /\ hist' = Hist("execute", cur, hist.stmt, "none", r.calls, r.tag,
                          Visible(db, cur), Snapshot)
    /\ executor' = NoExecutor
    /\ UNCHANGED indexes
    /\ UNCHANGED <<qvars, ovars, jvars>>

\* ------------------------------------------------------------------------
\* Query.executeInsert and Query.executeSelect
\* ------------------------------------------------------------------------
MaxRows == 2
MaxTuples == 2

NULL == <<>>
Cell(v) == <<v>>
TableNames == {"a", "b"}
\* every table is declared as (x integer)
TableColumns == <<"x">>

\* literals of a VALUES tuple: 1, 2, '1' and 'x' (a text that is no number)
IntLit(v) == [type |-> "int", v |-> v]
TextLit(v) == [type |-> "text", v |-> v]
Literals == {IntLit(1), IntLit(2), TextLit(1), TextLit(0)}
ShortLiterals == {IntLit(1), TextLit(0)}

\* notConv.convert(col.type) for an integer column
convert(lit, type) ==
    IF lit.type = type THEN [error |-> "none", value |-> lit.v]
    ELSE IF lit.type = "text" /\ lit.v > 0 THEN [error |-> "none", value |-> lit.v]
    ELSE [error |-> "CastError", value |-> 0]

\* t.insert(toInsert)
insert(rows, row) == Append(rows, row)

\* the for-loop over p.values: rows is the table as the loop mutates it; every
\* value is an expr_list
RECURSIVE insertLoop(_, _, _, _)
insertLoop(rows, columns, values, i) ==
    IF i > Len(values) THEN [rows |-> rows, error |-> "none", at |-> 0]
    ELSE LET val == values[i]
         IN IF Len(val) # Len(columns)
            THEN [rows |-> rows, error |-> "QueryError", at |-> i]
            ELSE LET conv == [c \in 1..Len(val) |-> convert(val[c], "int")]
                 IN IF \E c \in 1..Len(val) : conv[c].error # "none"
                    THEN [rows |-> rows, error |-> "CastError", at |-> i]
                    ELSE insertLoop(insert(rows, [c \in 1..Len(val) |-> Cell(conv[c].value)]),
                                    columns, values, i + 1)

\* p is an insert into one declared table; p.columns is <<>> when the statement
\* names no column
executeInsert(tabs, p) ==
    LET columns == IF p.columns = <<>> THEN TableColumns ELSE p.columns
        r == insertLoop(tabs[p.table], columns, p.values, 1)
    IN [tables |-> [tabs EXCEPT ![p.table] = r.rows], error |-> r.error, at |-> r.at]

\* the ON predicate of a join, on a row of each operand
On(on, rrow, jrow) ==
    \/ on = "true"
    \/ on = "eq" /\ rrow[1] = jrow[1]

RECURSIVE joinRows(_, _, _, _, _)
joinRows(rrows, jrows, on, innerJoin, nullRow) ==
    IF rrows = <<>> THEN <<>>
    ELSE LET r == Head(rrows)
             m == SelectSeq(jrows, LAMBDA j : On(on, r, j))
             out == IF m = <<>>
                    THEN (IF innerJoin THEN <<>> ELSE <<r \o nullRow>>)
                    ELSE [i \in 1..Len(m) |-> r \o m[i]]
         IN out \o joinRows(Tail(rrows), jrows, on, innerJoin, nullRow)

\* new JoinSelection(db, restrictive, joined, on, innerJoin), enumerated
JoinSelection(restrictive, joined, on, innerJoin) ==
    [columns |-> restrictive.columns \o joined.columns,
     rows    |-> joinRows(restrictive.rows, joined.rows, on, innerJoin,
                          [c \in 1..Len(joined.columns) |-> NULL])]

AliasOf(from) == IF from.as = NullObj THEN from.table ELSE from.as

\* the for-loop over p.from: t is the selection built so far, aliases the
\* Set the loop consults; a column is named by the position of its FROM entry
RECURSIVE selectLoop(_, _, _, _, _)
selectLoop(tabs, from, i, t, aliases) ==
    IF i > Len(from) THEN [error |-> "none", columns |-> t.columns, rows |-> t.rows]
    ELSE LET f == from[i]
             newT == [columns |-> <<i>>, rows |-> tabs[f.table]]
         IN IF AliasOf(f) \in aliases
            THEN [error |-> "DuplicateAlias", columns |-> <<>>, rows |-> <<>>]
            ELSE IF i = 1 THEN selectLoop(tabs, from, i + 1, newT, aliases)
            ELSE IF f.join = "RIGHT JOIN"
            THEN selectLoop(tabs, from, i + 1,
                            JoinSelection(newT, t, f.on, f.join = "INNER JOIN"), aliases)
            ELSE IF f.join = "INNER JOIN"
            THEN selectLoop(tabs, from, i + 1, JoinSelection(t, newT, f.on, TRUE), aliases)
            ELSE IF f.join = "LEFT JOIN"
            THEN selectLoop(tabs, from, i + 1, JoinSelection(t, newT, f.on, FALSE), aliases)
            ELSE [error |-> "NotSupported", columns |-> <<>>, rows |-> <<>>]

\* p is a select whose FROM entries each name a declared table; p.where is
\* absent and p.columns is '*': the selection is enumerated as built
executeSelect(tabs, p) ==
    selectLoop(tabs, p.from, 1, [columns |-> <<>>, rows |-> <<>>], {})

Aliases == {NullObj, "t"}
JoinKinds == {"INNER JOIN", "LEFT JOIN", "RIGHT JOIN", "CROSS JOIN"}
OnKinds == {"eq", "true", "false"}
FirstEntries ==
    [table : TableNames, as : Aliases, join : {NullObj}, on : {"true"}]
JoinEntries ==
    [table : TableNames, as : Aliases, join : JoinKinds, on : OnKinds]
FromLists ==
    {<<f>> : f \in FirstEntries} \cup {<<f, g>> : f \in FirstEntries, g \in JoinEntries}

Tuples ==
    {<<l>> : l \in Literals} \cup {<<l, m>> : l \in ShortLiterals, m \in ShortLiterals}

RECURSIVE SeqsUpTo(_, _)
SeqsUpTo(S, n) ==
    IF n = 0 THEN {<<>>}
    ELSE LET shorter == SeqsUpTo(S, n - 1)
         IN shorter \cup {Append(s, x) : s \in {q \in shorter : Len(q) = n - 1}, x \in S}

ValueLists == SeqsUpTo(Tuples, MaxTuples) \ {<<>>}

QRes(op, error, table, at, pre, from, columns, rows) ==
    [op |-> op, error |-> error, table |-> table, at |-> at, pre |-> pre,
     from |-> from, columns |-> columns, rows |-> rows]

NoResult == QRes("none", "none", NullObj, 0, <<>>, <<>>, <<>>, <<>>)

InitQuery ==
    /\ tables = [tn \in TableNames |-> <<>>]
    /\ qres = NoResult

\* a call of Query.none / Query.many runs one statement and returns; qres is
\* what the call in progress returns
ExecuteInsert ==
    /\ qres = NoResult
    /\ \E tn \in TableNames, columns \in {<<>>, TableColumns}, values \in ValueLists :
          /\ Len(tables[tn]) + Len(values) <= MaxRows
          /\ LET r == executeInsert(tables, [table |-> tn, columns |-> columns,
                                             values |-> values])
             IN /\ tables' = r.tables
                /\ qres' = QRes("insert", r.error, tn, r.at, tables[tn], <<>>, <<>>, <<>>)
    /\ UNCHANGED <<txvars, ovars, jvars>>

ExecuteSelect ==
    /\ qres = NoResult
    /\ \E from \in FromLists :
          LET r == executeSelect(tables, [from |-> from])
          IN qres' = QRes("select", r.error, NullObj, 0, <<>>, from, r.columns, r.rows)
    /\ UNCHANGED tables
    /\ UNCHANGED <<txvars, ovars, jvars>>

\* the call returns to its caller
Return ==
    /\ qres # NoResult
    /\ qres' = NoResult
    /\ UNCHANGED tables
    /\ UNCHANGED <<txvars, ovars, jvars>>

\* ------------------------------------------------------------------------
\* ORDER BY: the comparator chain and the sort
\* ------------------------------------------------------------------------
MaxOrderRows == 3

OrderItem(col, desc, nulls) == [col |-> col, desc |-> desc, nulls |-> nulls]

nullsFirst(o) == IF o.nulls = "default" THEN o.desc ELSE o.nulls = "first"

compareColumnNullsAlwaysLast(o, a, b) ==
    LET x == a[o.col]
        y == b[o.col]
    IN IF x = NULL /\ y = NULL THEN 0
       ELSE IF x = NULL THEN (IF o.nulls = "first" THEN -1 ELSE 1)
       ELSE IF y = NULL THEN (IF o.nulls = "first" THEN 1 ELSE -1)
       ELSE IF x[1] = y[1] THEN 0
       ELSE IF (x[1] < y[1]) # o.desc THEN -1 ELSE 1

\* one ORDER BY column: -1 when row a sorts before row b, 1 when after, 0 on a tie
compareColumn(o, a, b) ==
    LET x == a[o.col]
        y == b[o.col]
    IN IF x = NULL /\ y = NULL THEN 0
       ELSE IF x = NULL THEN (IF nullsFirst(o) THEN -1 ELSE 1)
       ELSE IF y = NULL THEN (IF nullsFirst(o) THEN 1 ELSE -1)
       ELSE IF x[1] = y[1] THEN 0
       ELSE IF (x[1] < y[1]) # o.desc THEN -1 ELSE 1

\* the columns left to right: the first that does not tie decides
RECURSIVE compareRows(_, _, _, _)
compareRows(by, i, a, b) ==
    IF i > Len(by) THEN 0
    ELSE LET c == compareColumn(by[i], a, b)
         IN IF c # 0 THEN c ELSE compareRows(by, i + 1, a, b)

\* stable insertion: row goes after every row that does not sort after it
RECURSIVE insertSorted(_, _, _)
insertSorted(sorted, row, by) ==
    IF sorted = <<>> THEN <<row>>
    ELSE IF compareRows(by, 1, row, Head(sorted)) < 0 THEN <<row>> \o sorted
    ELSE <<Head(sorted)>> \o insertSorted(Tail(sorted), row, by)

RECURSIVE orderBy(_, _)
orderBy(rows, by) ==
    IF rows = <<>> THEN <<>>
    ELSE insertSorted(orderBy(SubSeq(rows, 1, Len(rows) - 1), by), rows[Len(rows)], by)

\* the rows and expectations of the 'Order by' tests ('a' is 1, 'b' is 2)
TestRowsText == << <<Cell(2)>>, <<Cell(1)>>, <<NULL>> >>
TestRowsTwo ==
    << <<Cell(1), Cell(13)>>, <<Cell(2), Cell(11)>>, <<Cell(1), NULL>>, <<Cell(1), Cell(11)>>,
       <<Cell(2), Cell(12)>>, <<Cell(1), Cell(12)>>, <<NULL, Cell(1)>>, <<NULL, Cell(5)>> >>
OrderTests ==
    { [rows |-> TestRowsText, by |-> <<OrderItem(1, FALSE, "default")>>,
       expected |-> << <<Cell(1)>>, <<Cell(2)>>, <<NULL>> >>],
      [rows |-> TestRowsText, by |-> <<OrderItem(1, TRUE, "default")>>,
       expected |-> << <<NULL>>, <<Cell(2)>>, <<Cell(1)>> >>],
      [rows |-> TestRowsText, by |-> <<OrderItem(1, TRUE, "last")>>,
       expected |-> << <<Cell(2)>>, <<Cell(1)>>, <<NULL>> >>],
      [rows |-> TestRowsText, by |-> <<OrderItem(1, TRUE, "first")>>,
       expected |-> << <<NULL>>, <<Cell(2)>>, <<Cell(1)>> >>],
      [rows |-> TestRowsTwo,
       by |-> <<OrderItem(1, FALSE, "default"), OrderItem(2, TRUE, "default")>>,
       expected |->
         << <<Cell(1), NULL>>, <<Cell(1), Cell(13)>>, <<Cell(1), Cell(12)>>,
            <<Cell(1), Cell(11)>>, <<Cell(2), Cell(12)>>, <<Cell(2), Cell(11)>>,
            <<NULL, Cell(5)>>, <<NULL, Cell(1)>> >>] }

OrderCells == {NULL, Cell(1), Cell(2)}
OrderRowDomain == {<<x, y>> : x \in OrderCells, y \in OrderCells}
NullsModes == {"default", "first", "last"}
OrderItems(col) == {OrderItem(col, d, n) : d \in BOOLEAN, n \in NullsModes}
OrderBys ==
    {<<o>> : o \in OrderItems(1) \cup OrderItems(2)}
        \cup {<<o, p>> : o \in OrderItems(1), p \in OrderItems(2)}

NotSorted == [done |-> FALSE, rows |-> <<>>]

InitOrder ==
    /\ \/ /\ ordRows \in SeqsUpTo(OrderRowDomain, MaxOrderRows)
          /\ ordBy \in OrderBys
       \/ \E tc \in OrderTests : ordRows = tc.rows /\ ordBy = tc.by
    /\ ordOut = NotSorted

OrderBySort ==
    /\ ~ordOut.done
    /\ ordOut' = [done |-> TRUE, rows |-> orderBy(ordRows, ordBy)]
    /\ UNCHANGED <<ordRows, ordBy>>
    /\ UNCHANGED <<txvars, qvars, jvars>>

\* ------------------------------------------------------------------------
\* jsonb values and their structural order
\* ------------------------------------------------------------------------
JNull == [k |-> "null"]
JBool(b) == [k |-> "boolean", b |-> b]
JNum(n) == [k |-> "number", n |-> n]
JStr(s) == [k |-> "string", s |-> s]
JArr(items) == [k |-> "array", items |-> items]
\* an object: its keys in key order, and the value of each
JObj(keys, vals) == [k |-> "object", keys |-> keys, vals |-> vals]

sign(x, y) == IF x < y THEN -1 ELSE IF x > y THEN 1 ELSE 0

stringRank(s) == CASE s = "a" -> 1 [] s = "b" -> 2 [] s = "c" -> 3

typeRank(v) ==
    CASE v.k = "null" -> 0
      [] v.k = "boolean" -> 1
      [] v.k = "number" -> 2
      [] v.k = "string" -> 3
      [] v.k = "array" -> 4
      [] v.k = "object" -> 5

keyIndex(o, key) == CHOOSE i \in 1..Len(o.keys) : o.keys[i] = key

hasKey(o, key) == \E i \in 1..Len(o.keys) : o.keys[i] = key

isEmptyArray(v) == v.k = "array" /\ v.items = <<>>

\* the order as a pure type rank with element-wise arrays
RECURSIVE rankOrderCompare(_, _)
RECURSIVE rankOrderItems(_, _, _)
RECURSIVE rankOrderShared(_, _, _)
rankOrderItems(xs, ys, i) ==
    IF i > Len(xs) /\ i > Len(ys) THEN 0
    ELSE IF i > Len(xs) THEN -1
    ELSE IF i > Len(ys) THEN 1
    ELSE LET c == rankOrderCompare(xs[i], ys[i])
         IN IF c # 0 THEN c ELSE rankOrderItems(xs, ys, i + 1)

rankOrderShared(a, b, i) ==
    IF i > Len(a.keys) THEN 0
    ELSE IF ~hasKey(b, a.keys[i]) THEN rankOrderShared(a, b, i + 1)
    ELSE LET c == rankOrderCompare(a.vals[i], b.vals[keyIndex(b, a.keys[i])])
         IN IF c # 0 THEN c ELSE rankOrderShared(a, b, i + 1)

rankOrderCompare(a, b) ==
    IF a.k # b.k THEN sign(typeRank(a), typeRank(b))
    ELSE CASE a.k = "null" -> 0
           [] a.k = "boolean" -> sign(IF a.b THEN 1 ELSE 0, IF b.b THEN 1 ELSE 0)
           [] a.k = "number" -> sign(a.n, b.n)
           [] a.k = "string" -> sign(stringRank(a.s), stringRank(b.s))
           [] a.k = "array" -> rankOrderItems(a.items, b.items, 1)
           [] a.k = "object" ->
                IF Len(a.keys) # Len(b.keys) THEN sign(Len(a.keys), Len(b.keys))
                ELSE rankOrderShared(a, b, 1)

RECURSIVE jsonbCompare(_, _)
RECURSIVE compareItems(_, _, _)
RECURSIVE compareShared(_, _, _)
compareItems(xs, ys, i) ==
    IF i > Len(xs) THEN 0
    ELSE LET c == jsonbCompare(xs[i], ys[i])
         IN IF c # 0 THEN c ELSE compareItems(xs, ys, i + 1)

compareShared(a, b, i) ==
    IF i > Len(a.keys) THEN 0
    ELSE IF ~hasKey(b, a.keys[i]) THEN compareShared(a, b, i + 1)
    ELSE LET c == jsonbCompare(a.vals[i], b.vals[keyIndex(b, a.keys[i])])
         IN IF c # 0 THEN c ELSE compareShared(a, b, i + 1)

\* -1, 0, 1: a is LESS than, ordered as, GREATER than b
jsonbCompare(a, b) ==
    IF a.k = "array" /\ b.k = "array"
    THEN IF Len(a.items) # Len(b.items) THEN sign(Len(a.items), Len(b.items))
         ELSE compareItems(a.items, b.items, 1)
    ELSE IF isEmptyArray(a) THEN -1
    ELSE IF isEmptyArray(b) THEN 1
    ELSE IF a.k # b.k THEN sign(typeRank(a), typeRank(b))
    ELSE CASE a.k = "null" -> 0
           [] a.k = "boolean" -> sign(IF a.b THEN 1 ELSE 0, IF b.b THEN 1 ELSE 0)
           [] a.k = "number" -> sign(a.n, b.n)
           [] a.k = "string" -> sign(stringRank(a.s), stringRank(b.s))
           [] a.k = "object" ->
                IF Len(a.keys) # Len(b.keys) THEN sign(Len(a.keys), Len(b.keys))
                ELSE compareShared(a, b, 1)

\* equality is identity of structure and values
RECURSIVE jsonbEquals(_, _)
jsonbEquals(a, b) ==
    IF a.k # b.k THEN FALSE
    ELSE CASE a.k = "null" -> TRUE
           [] a.k = "boolean" -> a.b = b.b
           [] a.k = "number" -> a.n = b.n
           [] a.k = "string" -> a.s = b.s
           [] a.k = "array" ->
                /\ Len(a.items) = Len(b.items)
                /\ \A i \in 1..Len(a.items) : jsonbEquals(a.items[i], b.items[i])
           [] a.k = "object" ->
                /\ a.keys = b.keys
                /\ \A i \in 1..Len(a.keys) : jsonbEquals(a.vals[i], b.vals[i])

Truth(x) == IF x THEN "true" ELSE "false"

\* select l::jsonb <op> r::jsonb
jsonbOperator(op, a, b) ==
    CASE op = "="  -> Truth(jsonbEquals(a, b))
      [] op = "<"  -> Truth(jsonbCompare(a, b) < 0)
      [] op = "<=" -> Truth(jsonbCompare(a, b) <= 0)
      [] op = ">"  -> Truth(jsonbCompare(a, b) > 0)
      [] op = ">=" -> Truth(jsonbCompare(a, b) >= 0)

rankOrderOperator(op, a, b) ==
    CASE op = "="  -> Truth(jsonbEquals(a, b))
      [] op = "<"  -> Truth(rankOrderCompare(a, b) < 0)
      [] op = "<=" -> Truth(rankOrderCompare(a, b) <= 0)
      [] op = ">"  -> Truth(rankOrderCompare(a, b) > 0)
      [] op = ">=" -> Truth(rankOrderCompare(a, b) >= 0)

\* the values the 'orders jsonb values' tests compare, and a few more
JsonVals ==
    << JObj(<<>>, <<>>),
       JArr(<<>>),
       JNum(1),
       JObj(<<"a">>, <<JStr("b")>>),
       JObj(<<"a">>, <<JStr("a")>>),
       JObj(<<"a", "b">>, <<JStr("a"), JStr("c")>>),
       JNull,
       JArr(<<JNum(1), JNum(2)>>),
       JArr(<<JNum(1)>>),
       JArr(<<JNum(2), JNum(2)>>),
       JArr(<<JNum(1), JNum(2), JNum(3)>>),
       JBool(TRUE),
       JStr("a"),
       JNum(2) >>

JsonOps == {"=", "<", "<=", ">", ">="}

Entry(l, op, r, expect) == [l |-> l, op |-> op, r |-> r, expect |-> expect]

\* the tests' table, by position in JsonVals
TruthTable ==
    { Entry(1, ">", 2, "true"), Entry(1, ">", 3, "true"), Entry(2, "<", 3, "true"),
      Entry(4, ">", 5, "true"), Entry(6, ">=", 5, "true"), Entry(1, ">=", 7, "true"),
      Entry(3, ">=", 7, "true"), Entry(2, "<", 7, "true"), Entry(8, ">", 9, "true"),
      Entry(10, ">", 8, "true"), Entry(7, "=", 7, "true"),
      Entry(5, ">", 5, "false"), Entry(1, "<", 2, "false"), Entry(2, ">=", 7, "false"),
      Entry(8, ">", 11, "false"), Entry(10, ">", 11, "false"), Entry(10, "=", 7, "false") }

InitJson ==
    /\ jl \in 1..Len(JsonVals)
    /\ jr \in 1..Len(JsonVals)
    /\ jop \in JsonOps
    /\ jres = "unset"

JsonbCompareValues ==
    /\ jres = "unset"
    /\ jres' = jsonbOperator(jop, JsonVals[jl], JsonVals[jr])
    /\ UNCHANGED <<jl, jr, jop>>
    /\ UNCHANGED <<txvars, qvars, ovars>>

\* ------------------------------------------------------------------------
\* Specifications
\* ------------------------------------------------------------------------
IdleTx ==
    /\ db = InitDb
    /\ cur = Root
    /\ indexes = {}
    /\ sequences = {}
    /\ executor = NoExecutor
    /\ direct = [t \in TxIds |-> {}]
    /\ hist = Hist("init", Root, NoStatement, "none", <<>>, "none", {}, NoSnapshot)

IdleQuery ==
    /\ tables = [tn \in TableNames |-> <<>>]
    /\ qres = NoResult

IdleOrder ==
    /\ ordRows = <<>>
    /\ ordBy = <<>>
    /\ ordOut = NotSorted

IdleJson ==
    /\ jl = 1
    /\ jr = 1
    /\ jop = "="
    /\ jres = "unset"

Init == InitTx /\ IdleQuery /\ IdleOrder /\ IdleJson

Next ==
    \/ Fork
    \/ Write
    \/ Commit
    \/ Rollback
    \/ PlanDropIndex
    \/ PlanDropSequence
    \/ ExecuteDropIndex
    \/ ExecuteDropSequence

Spec == Init /\ [][Next]_vars

InitQ == IdleTx /\ InitQuery /\ IdleOrder /\ IdleJson

NextQuery ==
    \/ ExecuteInsert
    \/ ExecuteSelect
    \/ Return

SpecQuery == InitQ /\ [][NextQuery]_vars

InitO == IdleTx /\ IdleQuery /\ InitOrder /\ IdleJson

NextOrder == OrderBySort

SpecOrder == InitO /\ [][NextOrder]_vars

InitJ == IdleTx /\ IdleQuery /\ IdleOrder /\ InitJson

NextJson == JsonbCompareValues

SpecJson == InitJ /\ [][NextJson]_vars

\* ------------------------------------------------------------------------
\* Properties
\* ------------------------------------------------------------------------
PreChain == Chain(hist.pre.db, hist.pre.cur)

Dropped == \E i \in 1..Len(hist.calls) : hist.calls[i].call = "drop"

StatementObjects(snapshot) ==
    IF hist.stmt.kind = "DropIndex" THEN snapshot.indexes ELSE snapshot.sequences

\* C1: after DropIndex.execute / DropSequence.execute the result carries a fresh
\* open fork of the root, every transaction of the caller's chain is committed,
\* and all that was visible through the caller's transaction is in the root,
\* where rolling back the returned scope cannot undo it.
C1_DropReturnsOpenForkOverCommittedChain ==
    hist.op = "execute" =>
        /\ hist.tag = "DROP"
        /\ db.status[cur] = "open"
        /\ cur # Root
        /\ hist.pre.db.status[cur] = "unused"
        /\ db.parent[cur] = Root
        /\ ~HasPending(db, cur)
        /\ \A a \in PreChain \ {Root} : db.status[a] = "committed"
        /\ OpenTx(db) = {Root, cur}
        /\ db.store = hist.view
        /\ Visible(db, cur) = hist.view
        /\ rollback(db, cur).store = hist.view

C1_Witness ==
    /\ hist.op = "execute"
    /\ Dropped
    /\ Cardinality(PreChain) >= 3
    /\ \A a \in PreChain \ {Root} : HasPending(hist.pre.db, a)
    /\ hist.view # hist.pre.db.store

\* C2: in every execution of DROP INDEX / DROP SEQUENCE the drop comes after
\* fullCommit and before fork, is applied to the scope fullCommit returned (the
\* root, not the caller's open transaction), and no transaction of the chain
\* holds pending changes when it is applied.
C2_DropOnlyOnFullyCommittedScope ==
    hist.op = "execute" =>
        LET calls == hist.calls
            n == Len(calls)
        IN /\ n >= 2
           /\ calls[1].call = "fullCommit"
           /\ calls[1].on = hist.pre.cur
           /\ calls[n].call = "fork"
           /\ \A i \in 1..n : calls[i].call = "drop" =>
                 /\ i = 2
                 /\ n = 3
                 /\ calls[i].on = calls[1].ret
                 /\ calls[i].on = Root
                 /\ (hist.pre.cur # Root => calls[i].on # hist.pre.cur)
                 /\ ~calls[i].dirty
                 /\ calls[n].on = calls[i].on

C2_Witness ==
    /\ hist.op = "execute"
    /\ Dropped
    /\ hist.pre.cur # Root
    /\ Dirty(hist.pre.db)

\* C3: executing DROP ... IF EXISTS on a missing object returns 'DROP' and
\* leaves everything as it was: the same indexes and sequences, nothing new in
\* the root, and every open transaction still open with its pending changes.
C3_IfExistsOnMissingObjectChangesNothing ==
    (/\ hist.op = "execute"
     /\ hist.stmt.ifExists
     /\ hist.stmt.name \notin StatementObjects(hist.pre)) =>
        /\ hist.tag = "DROP"
        /\ indexes = hist.pre.indexes
        /\ sequences = hist.pre.sequences
        /\ db.store = hist.pre.db.store
        /\ \A t \in OpenTx(hist.pre.db) : HasPending(hist.pre.db, t) =>
              /\ db.status[t] = "open"
              /\ db.pending[t] = hist.pre.db.pending[t]

\* C4: DROP INDEX / DROP SEQUENCE without IF EXISTS on a missing object fails in
\* the constructor: no executor exists, so execute cannot run, nothing was
\* called, and the transaction chain and the schema are as before.
C4_MissingObjectFailsAtPlanning ==
    (/\ hist.op = "plan"
     /\ ~hist.stmt.ifExists
     /\ hist.stmt.name \notin StatementObjects(hist.pre)) =>
        /\ hist.error = NotFound
        /\ executor = NoExecutor
        /\ ~ENABLED ExecuteDropIndex
        /\ ~ENABLED ExecuteDropSequence
        /\ hist.calls = <<>>
        /\ Snapshot = hist.pre

C4_Witness ==
    /\ hist.op = "plan"
    /\ hist.error = NotFound
    /\ ~hist.stmt.ifExists
    /\ Dirty(db)

HasRepeatedAlias(from) ==
    \E i, j \in 1..Len(from) : i < j /\ AliasOf(from[i]) = AliasOf(from[j])

\* C5: a SELECT whose FROM list repeats an alias (or an unaliased table name)
\* is rejected with the 'specified more than once' error and returns no row; a
\* FROM list of distinct aliases never gets that error.
C5_RepeatedAliasIsRejected ==
    qres.op = "select" =>
        /\ HasRepeatedAlias(qres.from) => qres.error = "DuplicateAlias" /\ qres.rows = <<>>
        /\ ~HasRepeatedAlias(qres.from) => qres.error # "DuplicateAlias"

\* C6: a multi-row INSERT that fails on one of its tuples leaves none of the
\* tuples before it in the table.
C6_FailedInsertLeavesNoRow ==
    (qres.op = "insert" /\ qres.error \in {"QueryError", "CastError"}) =>
        tables[qres.table] = qres.pre

\* C7: a commit leaves the parent seeing exactly what it would see had the
\* child's changes been made in it directly; a rollback leaves the parent's
\* view as it was, and a new fork of the same parent sees that view too.
C7_ForkCommitRollbackRoundTrip ==
    /\ hist.op = "commit" => Visible(db, cur) = hist.view
    /\ hist.op = "rollback" =>
          /\ Visible(db, cur) = hist.view
          /\ db.nextId <= MaxTx =>
                LET fk == fork(db, cur) IN Visible(fk.d, fk.ret) = hist.view

C7_Witness ==
    /\ hist.op = "commit"
    /\ cur # Root
    /\ \E k \in Keys : db.pending[cur][k] = "del" /\ k \in Visible(db, db.parent[cur])
    /\ \E k \in Keys : db.pending[cur][k] = "ins" /\ k \notin Visible(db, db.parent[cur])

Position(columns, entry) == CHOOSE i \in 1..Len(columns) : columns[i] = entry

\* a result row as <<cell of the first FROM entry, cell of the second>>
Declared(row) == <<row[Position(qres.columns, 1)], row[Position(qres.columns, 2)]>>

Copies(rows, row) == Cardinality({i \in 1..Len(rows) : rows[i] = row})

Emitted(pair) == Cardinality({i \in 1..Len(qres.rows) : Declared(qres.rows[i]) = pair})

JoinedPair ==
    /\ qres.op = "select"
    /\ qres.error = "none"
    /\ Len(qres.from) = 2

LeftRows == tables[qres.from[1].table]
RightRows == tables[qres.from[2].table]
JoinOn(l, r) == On(qres.from[2].on, l, r)
LeftUnmatched(l) == \A j \in 1..Len(RightRows) : ~JoinOn(l, RightRows[j])
RightUnmatched(r) == \A i \in 1..Len(LeftRows) : ~JoinOn(LeftRows[i], r)

LeftJoinRows ==
    \A i \in 1..Len(LeftRows) : LeftUnmatched(LeftRows[i]) =>
        Emitted(<<LeftRows[i][1], NULL>>) = Copies(LeftRows, LeftRows[i])

InnerJoinRows ==
    /\ \A i \in 1..Len(qres.rows) : \A c \in 1..2 : qres.rows[i][c] # NULL
    /\ \A i \in 1..Len(qres.rows) :
          JoinOn(<<Declared(qres.rows[i])[1]>>, <<Declared(qres.rows[i])[2]>>)

RightJoinRows ==
    /\ \A j \in 1..Len(RightRows) : RightUnmatched(RightRows[j]) =>
          Emitted(<<NULL, RightRows[j][1]>>) = Copies(RightRows, RightRows[j])
    /\ \A i \in 1..Len(qres.rows) : Declared(qres.rows[i])[2] # NULL

\* C8: LEFT JOIN emits each unmatched left row once with a NULL right side,
\* INNER JOIN emits no unmatched row, RIGHT JOIN emits each unmatched row of the
\* newly joined table once with a NULL left side, and the columns come in the
\* order the FROM list declares.
C8_JoinRowsAndColumnOrder ==
    JoinedPair =>
        /\ qres.from[2].join = "LEFT JOIN" => LeftJoinRows
        /\ qres.from[2].join = "INNER JOIN" => InnerJoinRows
        /\ qres.from[2].join = "RIGHT JOIN" => RightJoinRows
        /\ qres.columns = <<1, 2>>

ClaimedNullsFirst(o) ==
    CASE o.nulls = "first" -> TRUE
      [] o.nulls = "last" -> FALSE
      [] OTHER -> o.desc

\* x comes strictly before y in a column ordered by o
Before(o, x, y) ==
    \/ x = NULL /\ y # NULL /\ ClaimedNullsFirst(o)
    \/ x # NULL /\ y = NULL /\ ~ClaimedNullsFirst(o)
    \/ x # NULL /\ y # NULL /\ (IF o.desc THEN x[1] > y[1] ELSE x[1] < y[1])

\* at the first ORDER BY column where a and b differ, a comes before b
InOrder(by, a, b) ==
    \A k \in 1..Len(by) :
        (/\ a[by[k].col] # b[by[k].col]
         /\ \A m \in 1..(k - 1) : a[by[m].col] = b[by[m].col])
            => Before(by[k], a[by[k].col], b[by[k].col])

\* C9: the output of ORDER BY is the input rows, sorted lexicographically by the
\* column list, NULL last when ascending and first when descending unless NULLS
\* FIRST / NULLS LAST says otherwise; the tests' rows come out as the tests expect.
C9_OrderByIsLexicographicWithNullsPlacement ==
    ordOut.done =>
        /\ Len(ordOut.rows) = Len(ordRows)
        /\ \A i \in 1..Len(ordRows) : Copies(ordOut.rows, ordRows[i]) = Copies(ordRows, ordRows[i])
        /\ \A i, j \in 1..Len(ordOut.rows) :
              i < j => InOrder(ordBy, ordOut.rows[i], ordOut.rows[j])
        /\ \A tc \in OrderTests :
              (ordRows = tc.rows /\ ordBy = tc.by) => ordOut.rows = tc.expected

C9_Witness ==
    /\ ordOut.done
    /\ ordBy = <<OrderItem(1, TRUE, "last"), OrderItem(2, FALSE, "first")>>
    /\ Len(ordRows) = 3
    /\ ordOut.rows # ordRows
    /\ \E i \in 1..3 : ordRows[i][1] = NULL
    /\ \E i \in 1..3 : ordRows[i][2] = NULL /\ ordRows[i][1] # NULL

Tested(e) == jres # "unset" /\ jl = e.l /\ jop = e.op /\ jr = e.r

====
